---- MODULE Spec2Model ----
(***************************************************************************)
(* cross-repo-cherry-pick (crcp): the cherry-pick orchestration of         *)
(* src/src/index.js (first variant, lines 1-179) with the branch helpers   *)
(* of src/src/utils/branch/index.js, the input checks configCheck and      *)
(* argsCheck, and the repository they drive through the git command line.  *)
(*                                                                         *)
(* A JavaScript string is a sequence of tokens; the empty string is <<>>.  *)
(* A token is a run of characters that the regular expressions of the      *)
(* code treat alike: a scheme ("git@", "https://", "http://"), one of the  *)
(* separators "/", ":" and ".", or a word without any of these.            *)
(***************************************************************************)
EXTENDS Integers, Sequences, FiniteSets, TLC

(* ---------------------------------------------------------------------- *)
(* Bounds                                                                 *)
(* ---------------------------------------------------------------------- *)

\* number of data events (stdout and stderr together) of one cherry-pick
MaxData == 2

\* number of times the user declines to reuse an existing remote
MaxDeclines == 2

\* lines of a `git log` output
MaxLines == 2

(* ---------------------------------------------------------------------- *)
(* Strings                                                                *)
(* ---------------------------------------------------------------------- *)

Empty == <<>>

HasSlash(t) == t \in {"/", "https://", "http://"}
HasColon(t) == t \in {":", "https://", "http://"}
HasDot(t) == t = "."

UrlSsh == <<"git@", "h", ":", "o", "/", "lib", ".", "git">>
UrlHttps == <<"https://", "h", "/", "o", "/", "lib", ".", "git">>
UrlDeep == <<"https://", "h", "/", "g", "/", "o", "/", "lib", ".", "git">>
UrlTarget == <<"git@", "h", ":", "o", "/", "app", ".", "git">>
UrlBad == <<"not-a-url">>

SourceRepo == <<"source-repo">>

\* positions i (last of the host), j (the slash of the path) and k (last of
\* the name) at which /^(?:https?:\/\/|git@)(?:[^/:]+)[/:]([^/]+\/[^/.]+)(?:\.git)?$/i
\* matches url
RepoNameParses(url) ==
  LET n == Len(url) IN
  { p \in (1..n) \X (1..n) \X (1..n) :
      LET i == p[1]
          j == p[2]
          k == p[3]
      IN /\ url[1] \in {"https://", "http://", "git@"}
         /\ 2 <= i /\ i + 2 < j /\ j < k
         /\ \A m \in 2..i : ~HasSlash(url[m]) /\ ~HasColon(url[m])
         /\ url[i + 1] \in {"/", ":"}
         /\ \A m \in (i + 2)..(j - 1) : ~HasSlash(url[m])
         /\ url[j] = "/"
         /\ \A m \in (j + 1)..k : ~HasSlash(url[m]) /\ ~HasDot(url[m])
         /\ \/ k = n
            \/ k = n - 2 /\ url[n - 1] = "." /\ url[n] = "git" }

getRepoNameFromUrl(url) ==
  IF RepoNameParses(url) # {}
  THEN LET p == CHOOSE q \in RepoNameParses(url) : TRUE
       IN SubSeq(url, p[2] + 1, p[3])
  ELSE SourceRepo

\* first position after `from` of a token that holds the character, 0 if none
FirstSlash(url, from) ==
  IF \E m \in from..Len(url) : HasSlash(url[m])
  THEN CHOOSE m \in from..Len(url) :
         HasSlash(url[m]) /\ \A q \in from..(m - 1) : ~HasSlash(url[q])
  ELSE 0

FirstColon(url, from) ==
  IF \E m \in from..Len(url) : HasColon(url[m])
  THEN CHOOSE m \in from..Len(url) :
         HasColon(url[m]) /\ \A q \in from..(m - 1) : ~HasColon(url[q])
  ELSE 0

EndsWithDotGit(url) ==
  Len(url) >= 2 /\ url[Len(url) - 1] = "." /\ url[Len(url)] = "git"

\* sshPattern = /^git@([^:]+):([^/]+)\/(.+)\.git$/
SshMatch(url) ==
  LET c == FirstColon(url, 2)
      sl == FirstSlash(url, c + 1)
  IN /\ Len(url) >= 1 /\ url[1] = "git@"
     /\ c > 2 /\ url[c] = ":"
     /\ sl > c + 1 /\ url[sl] = "/"
     /\ EndsWithDotGit(url)
     /\ sl + 1 <= Len(url) - 2

\* httpsPattern = /^https?:\/\/([^/]+)\/([^/]+)\/(.+)\.git$/
HttpsMatch(url) ==
  LET s1 == FirstSlash(url, 2)
      s2 == FirstSlash(url, s1 + 1)
  IN /\ Len(url) >= 1 /\ url[1] \in {"https://", "http://"}
     /\ s1 > 2 /\ url[s1] = "/"
     /\ s2 > s1 + 1 /\ url[s2] = "/"
     /\ EndsWithDotGit(url)
     /\ s2 + 1 <= Len(url) - 2

\* normalizeUrl ends the process when neither pattern matches
normalizeUrlExits(url) == ~SshMatch(url) /\ ~HttpsMatch(url)

\* a normalizeUrl that hands every URL back as it came
normalizeUrl_AsGiven(url) == url

\* normalizeUrl: `https://${host}/${user}/${repo}.git`
normalizeUrl(url) ==
  IF SshMatch(url)
  THEN LET c == FirstColon(url, 2)
           sl == FirstSlash(url, c + 1)
       IN <<"https://">> \o SubSeq(url, 2, c - 1) \o <<"/">>
            \o SubSeq(url, c + 1, sl - 1) \o <<"/">>
            \o SubSeq(url, sl + 1, Len(url) - 2) \o <<".", "git">>
  ELSE LET s1 == FirstSlash(url, 2)
           s2 == FirstSlash(url, s1 + 1)
       IN <<"https://">> \o SubSeq(url, 2, s1 - 1) \o <<"/">>
            \o SubSeq(url, s1 + 1, s2 - 1) \o <<"/">>
            \o SubSeq(url, s2 + 1, Len(url) - 2) \o <<".", "git">>

(* ---------------------------------------------------------------------- *)
(* Inputs of a run: the configuration file and the command line           *)
(* ---------------------------------------------------------------------- *)

BranchX == <<"x">>
Release == <<"release">>
Dev == <<"dev">>
Abc123 == <<"abc123">>

\* `temp-${sourceBranch}`
TempBranchName(sourceBranch) == <<"temp-">> \o sourceBranch

\* `${usingRemoteName}/${sourceBranch}`
RemoteRef(remoteName, sourceBranch) == remoteName \o <<"/">> \o sourceBranch

\* loadConfigFile returns null when .crcpconfig.json is absent or unreadable
NoConfig ==
  [present |-> FALSE, sourceRepoUrl |-> Empty, sourceBranch |-> Empty,
   commitHash |-> Empty, targetBranch |-> Empty]

ConfigOf(u, s, c, t) ==
  [present |-> TRUE, sourceRepoUrl |-> u, sourceBranch |-> s,
   commitHash |-> c, targetBranch |-> t]

ConfigFiles ==
  { NoConfig,
    ConfigOf(UrlSsh, BranchX, Abc123, Release),
    ConfigOf(UrlSsh, BranchX, Abc123, TempBranchName(BranchX)),
    ConfigOf(Empty, BranchX, Abc123, Release),
    ConfigOf(UrlSsh, Empty, Abc123, Release),
    ConfigOf(UrlSsh, BranchX, Empty, Release),
    ConfigOf(UrlSsh, BranchX, Abc123, Empty) }

\* process.argv.slice(2)
ArgLists ==
  { <<>>,
    <<UrlHttps, BranchX, Abc123, Release>>,
    <<UrlSsh, BranchX, Abc123, UrlTarget, Release>>,
    <<UrlSsh, BranchX>>,
    <<UrlBad, BranchX, Abc123, Release>> }

\* let cherryConfig = {...} at the start of main
InitialConfig ==
  [usingRemoteName |-> Empty, usingRemoteUrl |-> Empty, sourceBranch |-> Empty,
   commitHash |-> Empty, targetBranch |-> Empty, isInitialized |-> FALSE]

\* a configCheck that takes the fields of the file as they are
configCheck_Unchecked(state, config) ==
  IF ~config.present
  THEN [state |-> state, exit |-> FALSE]
  ELSE [state |-> [usingRemoteName |-> getRepoNameFromUrl(config.sourceRepoUrl),
                   usingRemoteUrl |-> config.sourceRepoUrl,
                   sourceBranch |-> config.sourceBranch,
                   commitHash |-> config.commitHash,
                   targetBranch |-> config.targetBranch,
                   isInitialized |-> TRUE],
        exit |-> FALSE]

\* configCheck(state): exit is TRUE when it calls process.exit(1)
configCheck(state, config) ==
  IF ~config.present
  THEN [state |-> state, exit |-> FALSE]
  ELSE IF \/ config.sourceRepoUrl = Empty
          \/ config.targetBranch = Empty
          \/ config.sourceBranch = Empty
          \/ config.commitHash = Empty
  THEN [state |-> state, exit |-> TRUE]
  ELSE [state |-> [usingRemoteName |-> getRepoNameFromUrl(config.sourceRepoUrl),
                   usingRemoteUrl |-> config.sourceRepoUrl,
                   sourceBranch |-> config.sourceBranch,
                   commitHash |-> config.commitHash,
                   targetBranch |-> config.targetBranch,
                   isInitialized |-> TRUE],
        exit |-> FALSE]

\* an argsCheck that leaves a state the configuration file has filled
argsCheck_KeepsConfig(state, args) ==
  IF Len(args) = 0 \/ state.isInitialized
  THEN [state |-> state, exit |-> FALSE]
  ELSE IF \E index \in 1..4 : index > Len(args) \/ args[index] = Empty
  THEN [state |-> state, exit |-> TRUE]
  ELSE [state |-> [usingRemoteName |-> getRepoNameFromUrl(args[1]),
                   usingRemoteUrl |-> args[1],
                   sourceBranch |-> args[2],
                   commitHash |-> args[3],
                   targetBranch |-> args[4],
                   isInitialized |-> TRUE],
        exit |-> FALSE]

\* argsCheck(state): exit is TRUE when it calls process.exit(1)
argsCheck(state, args) ==
  IF Len(args) = 0
  THEN [state |-> state, exit |-> FALSE]
  ELSE IF \E index \in 1..4 : index > Len(args) \/ args[index] = Empty
  THEN [state |-> state, exit |-> TRUE]
  ELSE [state |-> [usingRemoteName |-> getRepoNameFromUrl(args[1]),
                   usingRemoteUrl |-> args[1],
                   sourceBranch |-> args[2],
                   commitHash |-> args[3],
                   targetBranch |-> args[4],
                   isInitialized |-> TRUE],
        exit |-> FALSE]

(* ---------------------------------------------------------------------- *)
(* The repository, as the git commands of the tool see and change it      *)
(* ---------------------------------------------------------------------- *)

LocalCommit == <<"c_loc">>
OldCommit == <<"c_old">>
SrcHead == <<"c_src">>

Files == {"a.js", "b.js"}

EmptyRefs == [n \in {} |-> Empty]

Put(f, k, v) == [n \in DOMAIN f \cup {k} |-> IF n = k THEN v ELSE f[n]]
Drop(f, k) == [n \in DOMAIN f \ {k} |-> f[n]]

\* a command line the tool has run: execSync(...) or spawn("git", ...)
Cmd(op, a, b) == [op |-> op, a |-> a, b |-> b]

\* git refuses a branch name that holds a colon
ValidBranchName(name) == name # Empty /\ \A m \in 1..Len(name) : ~HasColon(name[m])

Lib == <<"lib">>
Mirror == <<"mirror">>
MyOrigin == <<"my-", "origin">>
Origin == <<"origin">>

\* the remote names of the model in the order `git remote -v` lists them
KnownNames == << <<"app">>, Lib, Mirror, MyOrigin, Origin, SourceRepo >>

NameRank(name) == CHOOSE i \in 1..Len(KnownNames) : KnownNames[i] = name

RemoteNames(repo) == { repo.remotes[i].name : i \in 1..Len(repo.remotes) }

\* `git remote add <name> <url>`: refused when the name is taken
GitRemoteAdd(repo, name, url, ok) ==
  IF ok /\ name \notin RemoteNames(repo)
  THEN LET before == SelectSeq(repo.remotes, LAMBDA r : NameRank(r.name) < NameRank(name))
           after == SelectSeq(repo.remotes, LAMBDA r : NameRank(r.name) > NameRank(name))
       IN [ok |-> TRUE,
           repo |-> [repo EXCEPT !.remotes = before \o <<[name |-> name, url |-> url]>> \o after]]
  ELSE [ok |-> FALSE, repo |-> repo]

\* `git fetch <remoteName> <branch>`: needs the remote to be configured
GitFetch(repo, remoteName, branch, ok) ==
  IF ok /\ remoteName \in RemoteNames(repo)
  THEN [ok |-> TRUE,
        repo |-> [repo EXCEPT !.tracking = Put(@, RemoteRef(remoteName, branch), SrcHead)]]
  ELSE [ok |-> FALSE, repo |-> repo]

\* `git branch -D <name>`: git does not delete the checked-out branch
GitBranchDelete(repo, name, ok) ==
  IF ok /\ name \in DOMAIN repo.branches /\ repo.head # name
  THEN [ok |-> TRUE, repo |-> [repo EXCEPT !.branches = Drop(@, name)]]
  ELSE [ok |-> FALSE, repo |-> repo]

\* `git branch <name> <ref>`: the branch is created and not checked out
GitCheckoutNewFrom_NoSwitch(repo, name, ref, ok) ==
  IF /\ ok
     /\ ValidBranchName(name)
     /\ name \notin DOMAIN repo.branches
     /\ ref \in DOMAIN repo.tracking
  THEN [ok |-> TRUE,
        repo |-> [repo EXCEPT !.branches = Put(@, name, repo.tracking[ref])]]
  ELSE [ok |-> FALSE, repo |-> repo]

\* `git checkout -b <name> <ref>`
GitCheckoutNewFrom(repo, name, ref, ok) ==
  IF /\ ok
     /\ ValidBranchName(name)
     /\ name \notin DOMAIN repo.branches
     /\ ref \in DOMAIN repo.tracking
  THEN [ok |-> TRUE,
        repo |-> [repo EXCEPT !.branches = Put(@, name, repo.tracking[ref]),
                              !.head = name]]
  ELSE [ok |-> FALSE, repo |-> repo]

\* `git checkout -b <name>`: the new branch starts at the current HEAD
GitCheckoutNew(repo, name, ok) ==
  IF ok /\ ValidBranchName(name) /\ name \notin DOMAIN repo.branches
  THEN [ok |-> TRUE,
        repo |-> [repo EXCEPT !.branches = Put(@, name, repo.branches[repo.head]),
                              !.head = name]]
  ELSE [ok |-> FALSE, repo |-> repo]

\* `git checkout <name>`
GitCheckout(repo, name, ok) ==
  IF ok /\ name \in DOMAIN repo.branches
  THEN [ok |-> TRUE, repo |-> [repo EXCEPT !.head = name]]
  ELSE [ok |-> FALSE, repo |-> repo]

\* `git push -u origin <name>` and `git push -f origin <src>:<dst>`
GitPush(repo, src, dst, ok) ==
  IF ok /\ src \in DOMAIN repo.branches
  THEN [ok |-> TRUE,
        repo |-> [repo EXCEPT !.origin = Put(@, dst, repo.branches[src])]]
  ELSE [ok |-> FALSE, repo |-> repo]

\* the exit of `git cherry-pick <hash>` on the checked-out branch
GitCherryPickExit(repo, code, files) ==
  IF code = 0
  THEN [repo EXCEPT !.branches = Put(@, repo.head, Append(repo.branches[repo.head], "pick"))]
  ELSE [repo EXCEPT !.unmerged = files]

(* ---------------------------------------------------------------------- *)
(* Remote helpers of src/src/utils/common/index.js (lines 311-519)        *)
(* ---------------------------------------------------------------------- *)

\* the line "<name>: <url> (fetch)" includes "origin:"
IncludesOriginColon(r) ==
  \/ r.name # Empty /\ r.name[Len(r.name)] = "origin"
  \/ \E m \in 1..(Len(r.url) - 1) : r.url[m] = "origin" /\ r.url[m + 1] = ":"

\* the line includes "undefined"
IncludesUndefined(r) ==
  \/ \E m \in 1..Len(r.name) : r.name[m] = "undefined"
  \/ \E m \in 1..Len(r.url) : r.url[m] = "undefined"

\* getRemoteList: the (fetch) lines of `git remote -v` that pass the filter
getRemoteList(repo) ==
  SelectSeq(repo.remotes, LAMBDA r : ~IncludesUndefined(r) /\ ~IncludesOriginColon(r))

\* remoteName.split("/").slice(-1)[0]
LastSegment(name) ==
  LET sl == { m \in 1..Len(name) : name[m] = "/" }
  IN IF sl = {} THEN name
     ELSE SubSeq(name, (CHOOSE m \in sl : \A q \in sl : q <= m) + 1, Len(name))

\* getLastRemote: the first line of getRemoteList, or nulls
getLastRemote(repo) ==
  LET remotes == getRemoteList(repo)
  IN IF Len(remotes) = 0
     THEN [lastRemoteName |-> Empty, lastRemoteUrl |-> Empty]
     ELSE [lastRemoteName |-> LastSegment(remotes[1].name),
           lastRemoteUrl |-> remotes[1].url]

\* checkRemoteExists ends the process when normalizeUrl rejects a listed
\* URL or the candidate
checkRemoteExistsExits(repo, remoteRepo) ==
  LET remotes == getRemoteList(repo)
  IN \/ \E i \in 1..Len(remotes) : normalizeUrlExits(remotes[i].url)
     \/ normalizeUrlExits(remoteRepo)

\* checkRemoteExists: remotes.includes(normalizedInputUrl)
checkRemoteExists(repo, remoteRepo) ==
  LET remotes == getRemoteList(repo)
  IN \E i \in 1..Len(remotes) : normalizeUrl(remotes[i].url) = normalizeUrl(remoteRepo)

\* the line "<name> : <url> (fetch)" of src/index.js and dist/crcp.es.js
\* includes "origin:": the name is followed by a space, so only the URL can
IncludesOriginColon_Monolith(r) ==
  \E m \in 1..(Len(r.url) - 1) : r.url[m] = "origin" /\ r.url[m + 1] = ":"

\* getRemoteList of src/index.js (329-347) and dist/crcp.es.js (269-279):
\* the tab is replaced by " : " before the same filter
getRemoteList_Monolith(repo) ==
  SelectSeq(repo.remotes,
            LAMBDA r : ~IncludesUndefined(r) /\ ~IncludesOriginColon_Monolith(r))

\* checkRemoteExists of src/index.js (354-371) over that list
checkRemoteExistsExits_Monolith(repo, remoteRepo) ==
  LET remotes == getRemoteList_Monolith(repo)
  IN \/ \E i \in 1..Len(remotes) : normalizeUrlExits(remotes[i].url)
     \/ normalizeUrlExits(remoteRepo)

checkRemoteExists_Monolith(repo, remoteRepo) ==
  LET remotes == getRemoteList_Monolith(repo)
  IN \E i \in 1..Len(remotes) : normalizeUrl(remotes[i].url) = normalizeUrl(remoteRepo)

(* ---------------------------------------------------------------------- *)
(* getCommits of src/src/utils/common/index.js (lines 101-138)            *)
(* ---------------------------------------------------------------------- *)

\* the separator of line.split(" - ")
Sep == " - "

\* commits of the source branch: a subject and an abbreviated hash
LogCommits ==
  { [subject |-> <<"fix">>, hash |-> "h1"],
    [subject |-> <<"fix", Sep, "typo">>, hash |-> "h2"] }

\* the histories `git log` can list, newest first
LogHistories == UNION { [1..n -> LogCommits] : n \in 1..MaxLines }

\* a line of --pretty=format:"%ad %an > %s - %h"
FormatLogLine(c) == <<"2024-01-01 10:00:00 bob > ">> \o c.subject \o <<Sep, c.hash>>

\* the lines of the log output
FormatLog(history) == [i \in 1..Len(history) |-> FormatLogLine(history[i])]

\* const [message, ...rest] = line.split(" - "); hash = rest.join(" - ")
SplitLogLine(line) ==
  LET seps == { m \in 1..Len(line) : line[m] = Sep }
      first == IF seps = {} THEN Len(line) + 1
               ELSE CHOOSE m \in seps : \A q \in seps : m <= q
  IN [message |-> SubSeq(line, 1, first - 1),
      hash |-> SubSeq(line, first + 1, Len(line))]

\* getCommits, lines 122-131: one record per line of the log output
getCommits(logOutput) ==
  [i \in 1..Len(logOutput) |->
     LET p == SplitLogLine(logOutput[i])
     IN [name |-> p.message \o <<" (">> \o p.hash \o <<")">>,
         value |-> p.hash]]

(* ---------------------------------------------------------------------- *)
(* Branch helpers of src/src/utils/branch/index.js                        *)
(* Each returns the repository it leaves, the commands it ran and whether *)
(* the process was ended (process.exit(1) or an exception left to main).  *)
(* ---------------------------------------------------------------------- *)

\* handleBranchExists that takes every branch for absent
handleBranchExists_Never(repo, branchName, ok) ==
  [cmds |-> <<Cmd("branch --list", branchName, Empty)>>,
   exit |-> ~ok,
   exists |-> FALSE]

\* handleBranchExists: `git branch --list <branchName>`, trimmed, non-empty
handleBranchExists(repo, branchName, ok) ==
  [cmds |-> <<Cmd("branch --list", branchName, Empty)>>,
   exit |-> ~ok,
   exists |-> ok /\ branchName \in DOMAIN repo.branches]

\* handleDeleteBranch that goes on after a failed deletion
handleDeleteBranch_NoExit(repo, branchName, ok) ==
  LET d == GitBranchDelete(repo, branchName, ok)
  IN [cmds |-> <<Cmd("branch -D", branchName, Empty)>>,
      exit |-> FALSE,
      repo |-> d.repo]

\* handleDeleteBranch: `git branch -D <branchName>`, process.exit(1) on failure
handleDeleteBranch(repo, branchName, ok) ==
  LET d == GitBranchDelete(repo, branchName, ok)
  IN [cmds |-> <<Cmd("branch -D", branchName, Empty)>>,
      exit |-> ~d.ok,
      repo |-> d.repo]

\* createTemporaryBranch that goes on after a failed `git checkout -b`
createTemporaryBranch_NoCatch(repo, branchName, sourceBranch, env) ==
  LET ex == handleBranchExists(repo, branchName, env.list)
      del == handleDeleteBranch(repo, branchName, env.del)
      r1 == IF ex.exists THEN del.repo ELSE repo
      c1 == IF ex.exists THEN ex.cmds \o del.cmds ELSE ex.cmds
      co == GitCheckoutNewFrom(r1, branchName, sourceBranch, env.co)
  IN IF ex.exit
     THEN [repo |-> repo, cmds |-> ex.cmds, exit |-> TRUE]
     ELSE IF ex.exists /\ del.exit
     THEN [repo |-> repo, cmds |-> c1, exit |-> TRUE]
     ELSE [repo |-> co.repo,
           cmds |-> Append(c1, Cmd("checkout -b", branchName, sourceBranch)),
           exit |-> FALSE]

\* createTemporaryBranch: the branch is deleted when it exists, then created
\* from sourceBranch and checked out; every failure ends the process
createTemporaryBranch(repo, branchName, sourceBranch, env) ==
  LET ex == handleBranchExists(repo, branchName, env.list)
      del == handleDeleteBranch(repo, branchName, env.del)
      r1 == IF ex.exists THEN del.repo ELSE repo
      c1 == IF ex.exists THEN ex.cmds \o del.cmds ELSE ex.cmds
      co == GitCheckoutNewFrom(r1, branchName, sourceBranch, env.co)
  IN IF ex.exit
     THEN [repo |-> repo, cmds |-> ex.cmds, exit |-> TRUE]
     ELSE IF ex.exists /\ del.exit
     THEN [repo |-> repo, cmds |-> c1, exit |-> TRUE]
     ELSE [repo |-> co.repo,
           cmds |-> Append(c1, Cmd("checkout -b", branchName, sourceBranch)),
           exit |-> ~co.ok]

\* switchTargetBranch that does not check an existing target out
switchTargetBranch_NoCheckout(repo, targetBranch, env) ==
  LET ex == handleBranchExists(repo, targetBranch, env.list)
      nw == GitCheckoutNew(repo, targetBranch, env.co)
      pu == GitPush(nw.repo, targetBranch, targetBranch, env.push)
  IN IF ex.exit
     THEN [repo |-> repo, cmds |-> ex.cmds, exit |-> TRUE]
     ELSE IF ex.exists
     THEN [repo |-> repo, cmds |-> ex.cmds, exit |-> FALSE]
     ELSE IF ~nw.ok
     THEN [repo |-> repo,
           cmds |-> Append(ex.cmds, Cmd("checkout -b", targetBranch, Empty)),
           exit |-> TRUE]
     ELSE [repo |-> pu.repo,
           cmds |-> ex.cmds \o <<Cmd("checkout -b", targetBranch, Empty),
                                 Cmd("push -u", targetBranch, Empty)>>,
           exit |-> ~pu.ok]

\* switchTargetBranch: an existing target is checked out; a missing one is
\* created from HEAD and published; execSync throws into the catch of main
switchTargetBranch(repo, targetBranch, env) ==
  LET ex == handleBranchExists(repo, targetBranch, env.list)
      sw == GitCheckout(repo, targetBranch, env.co)
      nw == GitCheckoutNew(repo, targetBranch, env.co)
      pu == GitPush(nw.repo, targetBranch, targetBranch, env.push)
  IN IF ex.exit
     THEN [repo |-> repo, cmds |-> ex.cmds, exit |-> TRUE]
     ELSE IF ex.exists
     THEN [repo |-> sw.repo,
           cmds |-> Append(ex.cmds, Cmd("checkout", targetBranch, Empty)),
           exit |-> ~sw.ok]
     ELSE IF ~nw.ok
     THEN [repo |-> repo,
           cmds |-> Append(ex.cmds, Cmd("checkout -b", targetBranch, Empty)),
           exit |-> TRUE]
     ELSE [repo |-> pu.repo,
           cmds |-> ex.cmds \o <<Cmd("checkout -b", targetBranch, Empty),
                                 Cmd("push -u", targetBranch, Empty)>>,
           exit |-> ~pu.ok]

(* ---------------------------------------------------------------------- *)
(* State                                                                  *)
(* ---------------------------------------------------------------------- *)

VARIABLES
  cfgFile,        \* what loadConfigFile finds
  argv,           \* process.argv.slice(2)
  cherryConfig,   \* main's cherryConfig
  pc,             \* where the run is
  exited,         \* the node process has ended
  exitCode,       \* its exit status, once exited
  interrupted,    \* the SIGINT handler ran
  repo,           \* the repository: branches, head, origin, tracking, remotes, unmerged
  cmds,           \* the git command lines run so far, in order
  log,            \* the messages printed so far, in order
  gitProcess,     \* the cherry-pick child: "none", "running" or "closed"
  closeCode,      \* the code of its close event
  statusDisplay,  \* the flag of the same name in cherryPickAndHandleConflicts
  promise,        \* the promise cherryPickAndHandleConflicts returned
  confirm,        \* the answer to the push prompt
  nData,          \* data events delivered so far
  inputRepoUrl,   \* the URL typed at the last source repository prompt
  depth,          \* pending calls of getUserCustomRepositories
  result          \* the call of a helper made on its own, with what it returned

vars ==
  <<cfgFile, argv, cherryConfig, pc, exited, exitCode, interrupted, repo, cmds,
    log, gitProcess, closeCode, statusDisplay, promise, confirm, nData,
    inputRepoUrl, depth, result>>

\* no helper has been called on its own
NoResult == [fn |-> "none"]

RelCommit == <<"c_rel">>
TempX == TempBranchName(BranchX)

InitialBranches ==
  { b \in UNION { [S \cup {Dev} -> {LocalCommit, RelCommit, OldCommit, SrcHead}] :
                    S \in SUBSET {Release, TempX} } :
      /\ b[Dev] = LocalCommit
      /\ Release \in DOMAIN b => b[Release] = RelCommit
      /\ TempX \in DOMAIN b => b[TempX] \in {OldCommit, SrcHead} }

OriginRemote == [name |-> Origin, url |-> UrlTarget]

\* the remotes in the order of `git remote -v`; origin is always configured
InitialRemotes ==
  { <<OriginRemote>>,
    <<[name |-> Lib, url |-> UrlSsh], OriginRemote>>,
    <<[name |-> Mirror, url |-> UrlHttps], OriginRemote>> }

InitialRepos ==
  { [branches |-> b, head |-> h, origin |-> o, tracking |-> t, remotes |-> r,
     unmerged |-> {}] :
      b \in InitialBranches, h \in {Dev, Release, TempX},
      o \in {EmptyRefs, Put(EmptyRefs, Release, RelCommit)},
      t \in {EmptyRefs, Put(EmptyRefs, RemoteRef(Lib, BranchX), OldCommit)},
      r \in InitialRemotes }

Init ==
  /\ cfgFile \in ConfigFiles
  /\ argv \in ArgLists
  /\ cherryConfig = InitialConfig
  /\ pc = "main"
  /\ exited = FALSE
  /\ exitCode = 0
  /\ interrupted = FALSE
  /\ repo \in { r \in InitialRepos : r.head \in DOMAIN r.branches }
  /\ cmds = <<>>
  /\ log = <<>>
  /\ gitProcess = "none"
  /\ closeCode = 0
  /\ statusDisplay = FALSE
  /\ promise = "none"
  /\ confirm = "unasked"
  /\ nData = 0
  /\ inputRepoUrl = Empty
  /\ depth = 0
  /\ result = NoResult

(* ---------------------------------------------------------------------- *)
(* The run: main of src/src/index.js                                      *)
(* ---------------------------------------------------------------------- *)

\* process.exit(code), or the end of the process once nothing is pending
ProcessExit(code) ==
  /\ exited' = TRUE
  /\ exitCode' = code
  /\ pc' = "exited"

\* a main that lists the commits through question2 in every mode
Main_ListsCommits ==
  /\ pc = "main"
  /\ LET c == configCheck(cherryConfig, cfgFile)
         a == argsCheck(c.state, argv)
     IN IF c.exit
        THEN /\ ProcessExit(1)
             /\ UNCHANGED <<cherryConfig, cmds>>
             /\ log' = Append(log, "config field missing")
        ELSE IF a.exit
        THEN /\ ProcessExit(1)
             /\ cherryConfig' = c.state
             /\ log' = Append(log, "Insufficient command parameters")
             /\ UNCHANGED cmds
        ELSE /\ cherryConfig' = a.state
             /\ pc' = IF a.state.isInitialized THEN "fetch" ELSE "interactive"
             /\ cmds' = IF a.state.isInitialized
                        THEN cmds \o <<Cmd("fetch", a.state.usingRemoteName, a.state.sourceBranch),
                                       Cmd("log", RemoteRef(a.state.usingRemoteName, a.state.sourceBranch), Empty)>>
                        ELSE cmds
             /\ UNCHANGED <<exited, exitCode, log>>
  /\ UNCHANGED <<cfgFile, argv, interrupted, repo, gitProcess, closeCode,
                 statusDisplay, promise, confirm, nData, inputRepoUrl,
                 depth, result>>

\* main, lines 65-84: configCheck, argsCheck, then the choice of the mode
Main ==
  /\ pc = "main"
  /\ LET c == configCheck(cherryConfig, cfgFile)
         a == argsCheck(c.state, argv)
     IN IF c.exit
        THEN /\ ProcessExit(1)
             /\ UNCHANGED cherryConfig
             /\ log' = Append(log, "config field missing")
        ELSE IF a.exit
        THEN /\ ProcessExit(1)
             /\ cherryConfig' = c.state
             /\ log' = Append(log, "Insufficient command parameters")
        ELSE /\ cherryConfig' = a.state
             /\ pc' = IF a.state.isInitialized THEN "fetch" ELSE "interactive"
             /\ UNCHANGED <<exited, exitCode, log>>
  /\ UNCHANGED <<cfgFile, argv, interrupted, repo, cmds, gitProcess, closeCode,
                 statusDisplay, promise, confirm, nData, inputRepoUrl,
                 depth, result>>

\* URLs typed at the source repository prompt
InputUrls == {UrlSsh, UrlHttps, UrlDeep, UrlBad}

\* main, line 174-175: the catch of main prints the message and exits
Thrown(message) ==
  /\ log' = Append(log, message)
  /\ ProcessExit(1)

\* main, line 92: usingRemoteName is assigned inside the block in which
\* line 110 declares it with const, hence before its initialization
AssignBeforeInit == Thrown("ReferenceError: Cannot access 'usingRemoteName' before initialization")

\* main, line 85, and the first lines of getRepositories (404-421):
\* getLastRemote runs `git remote -v`, then the tool asks either whether to
\* use the listed remote or for a URL
GetLastRemote ==
  /\ pc = "interactive"
  /\ cmds' = Append(cmds, Cmd("remote -v", Empty, Empty))
  /\ \E ok \in BOOLEAN :
       IF ~ok
       THEN Thrown("error.message")
       ELSE /\ pc' = IF getLastRemote(repo).lastRemoteName # Empty
                     THEN "askUseLast" ELSE "askUrl"
            /\ UNCHANGED <<exited, exitCode, log>>
  /\ depth' = IF pc' = "askUrl" THEN 1 ELSE depth
  /\ UNCHANGED <<cfgFile, argv, cherryConfig, interrupted, repo, gitProcess,
                 closeCode, statusDisplay, promise, confirm, nData,
                 inputRepoUrl, result>>

\* getRepositories, lines 423-432: the answer to "Use the most recently
\* added remote repository"; on yes it returns and main goes on at line 92
AnswerUseExisting ==
  /\ pc = "askUseLast"
  /\ \E useExistingRemote \in BOOLEAN :
       IF useExistingRemote
       THEN /\ AssignBeforeInit
            /\ UNCHANGED depth
       ELSE /\ pc' = "askUrl"
            /\ depth' = 1
            /\ UNCHANGED <<exited, exitCode, log>>
  /\ UNCHANGED <<cfgFile, argv, cherryConfig, interrupted, repo, cmds,
                 gitProcess, closeCode, statusDisplay, promise, confirm, nData,
                 inputRepoUrl, result>>

\* getUserCustomRepositories, lines 352-389: the URL typed, checkRemoteExists
\* and, for a URL that is not connected, `git remote add`
AnswerRepoUrl ==
  /\ pc = "askUrl"
  /\ \E url \in InputUrls, listOk \in BOOLEAN, addOk \in BOOLEAN :
       LET repoName == getRepoNameFromUrl(url)
           add == GitRemoteAdd(repo, repoName, url, addOk)
       IN /\ inputRepoUrl' = url
          /\ IF ~listOk \/ checkRemoteExistsExits(repo, url)
             THEN /\ cmds' = Append(cmds, Cmd("remote -v", Empty, Empty))
                  /\ Thrown(IF listOk THEN "Error standardizing URL" ELSE "error.message")
                  /\ UNCHANGED repo
             ELSE IF checkRemoteExists(repo, url)
             THEN /\ cmds' = Append(cmds, Cmd("remote -v", Empty, Empty))
                  /\ pc' = "askUseRemote"
                  /\ UNCHANGED <<repo, exited, exitCode, log>>
             ELSE /\ cmds' = cmds \o <<Cmd("remote -v", Empty, Empty),
                                       Cmd("remote add", repoName, url)>>
                  /\ repo' = add.repo
                  /\ IF add.ok THEN AssignBeforeInit ELSE Thrown("error.message")
  /\ UNCHANGED <<cfgFile, argv, cherryConfig, interrupted, gitProcess,
                 closeCode, statusDisplay, promise, confirm, nData, depth, result>>

\* getUserCustomRepositories, lines 364-377: the answer to "Remote
\* repository already exists, do you want to use it?"; on no the function
\* calls itself
AnswerUseRemote ==
  /\ pc = "askUseRemote"
  /\ \E useRemote \in BOOLEAN :
       IF useRemote
       THEN /\ AssignBeforeInit
            /\ UNCHANGED depth
       ELSE /\ depth <= MaxDeclines
            /\ depth' = depth + 1
            /\ pc' = "askUrl"
            /\ UNCHANGED <<exited, exitCode, log>>
  /\ UNCHANGED <<cfgFile, argv, cherryConfig, interrupted, repo, cmds,
                 gitProcess, closeCode, statusDisplay, promise, confirm, nData,
                 inputRepoUrl, result>>

\* a fetch whose failure is swallowed
Fetch_Swallow ==
  /\ pc = "fetch"
  /\ \E ok \in BOOLEAN :
       LET f == GitFetch(repo, cherryConfig.usingRemoteName,
                         cherryConfig.sourceBranch, ok)
       IN /\ cmds' = Append(cmds, Cmd("fetch", cherryConfig.usingRemoteName,
                                      cherryConfig.sourceBranch))
          /\ repo' = f.repo
          /\ pc' = "createTemporaryBranch"
          /\ log' = Append(log, "Fetching from source repository...")
          /\ UNCHANGED <<exited, exitCode>>
  /\ UNCHANGED <<cfgFile, argv, cherryConfig, interrupted, gitProcess,
                 closeCode, statusDisplay, promise, confirm, nData,
                 inputRepoUrl, depth, result>>

\* main, lines 129-132: execSync(`git fetch ...`); a failure reaches the catch
Fetch ==
  /\ pc = "fetch"
  /\ \E ok \in BOOLEAN :
       LET f == GitFetch(repo, cherryConfig.usingRemoteName,
                         cherryConfig.sourceBranch, ok)
       IN /\ cmds' = Append(cmds, Cmd("fetch", cherryConfig.usingRemoteName,
                                      cherryConfig.sourceBranch))
          /\ repo' = f.repo
          /\ IF f.ok
             THEN /\ pc' = "createTemporaryBranch"
                  /\ log' = Append(log, "Fetching from source repository...")
                  /\ UNCHANGED <<exited, exitCode>>
             ELSE /\ ProcessExit(1)
                  /\ log' = log \o <<"Fetching from source repository...",
                                     "error.message">>
  /\ UNCHANGED <<cfgFile, argv, cherryConfig, interrupted, gitProcess,
                 closeCode, statusDisplay, promise, confirm, nData,
                 inputRepoUrl, depth, result>>

\* main, lines 134-138, going on whatever createTemporaryBranch did
CreateTemporaryBranch_GoOn ==
  /\ pc = "createTemporaryBranch"
  /\ \E env \in [list : BOOLEAN, del : BOOLEAN, co : BOOLEAN] :
       LET r == createTemporaryBranch(
                  repo, TempBranchName(cherryConfig.sourceBranch),
                  RemoteRef(cherryConfig.usingRemoteName, cherryConfig.sourceBranch),
                  env)
       IN /\ cmds' = cmds \o r.cmds
          /\ repo' = r.repo
          /\ pc' = "switchTargetBranch"
          /\ UNCHANGED <<exited, exitCode>>
  /\ UNCHANGED <<cfgFile, argv, cherryConfig, interrupted, log, gitProcess,
                 closeCode, statusDisplay, promise, confirm, nData,
                 inputRepoUrl, depth, result>>

\* main, lines 134-138
CreateTemporaryBranch ==
  /\ pc = "createTemporaryBranch"
  /\ \E env \in [list : BOOLEAN, del : BOOLEAN, co : BOOLEAN] :
       LET r == createTemporaryBranch(
                  repo, TempBranchName(cherryConfig.sourceBranch),
                  RemoteRef(cherryConfig.usingRemoteName, cherryConfig.sourceBranch),
                  env)
       IN /\ cmds' = cmds \o r.cmds
          /\ repo' = r.repo
          /\ IF r.exit
             THEN ProcessExit(1)
             ELSE /\ pc' = "switchTargetBranch"
                  /\ UNCHANGED <<exited, exitCode>>
  /\ UNCHANGED <<cfgFile, argv, cherryConfig, interrupted, log, gitProcess,
                 closeCode, statusDisplay, promise, confirm, nData,
                 inputRepoUrl, depth, result>>

\* main, lines 140-141, going on to the cherry-pick without switchTargetBranch
SwitchTargetBranch_Skipped ==
  /\ pc = "switchTargetBranch"
  /\ pc' = "cherryPick"
  /\ UNCHANGED <<cfgFile, argv, cherryConfig, exited, exitCode, interrupted,
                 repo, cmds, log, gitProcess, closeCode, statusDisplay, promise,
                 confirm, nData, inputRepoUrl, depth, result>>

\* main, lines 140-141
SwitchTargetBranch ==
  /\ pc = "switchTargetBranch"
  /\ \E env \in [list : BOOLEAN, co : BOOLEAN, push : BOOLEAN] :
       LET r == switchTargetBranch(repo, cherryConfig.targetBranch, env)
       IN /\ cmds' = cmds \o r.cmds
          /\ repo' = r.repo
          /\ IF r.exit
             THEN ProcessExit(1)
             ELSE /\ pc' = "cherryPick"
                  /\ UNCHANGED <<exited, exitCode>>
  /\ UNCHANGED <<cfgFile, argv, cherryConfig, interrupted, log, gitProcess,
                 closeCode, statusDisplay, promise, confirm, nData,
                 inputRepoUrl, depth, result>>

\* a spawn of `git cherry-pick --continue` in place of line 33
CherryPick_Continue ==
  /\ pc = "cherryPick"
  /\ cmds' = Append(cmds, Cmd("cherry-pick --continue", Empty, Empty))
  /\ log' = Append(log, "Cherry-picking commit")
  /\ gitProcess' = "running"
  /\ statusDisplay' = TRUE
  /\ promise' = "pending"
  /\ pc' = "waitClose"
  /\ UNCHANGED <<cfgFile, argv, cherryConfig, exited, exitCode, interrupted,
                 repo, closeCode, confirm, nData, inputRepoUrl, depth, result>>

\* cherryPickAndHandleConflicts, lines 29-34: the spawn; main then returns
CherryPick ==
  /\ pc = "cherryPick"
  /\ cmds' = Append(cmds, Cmd("cherry-pick", cherryConfig.commitHash, Empty))
  /\ log' = Append(log, "Cherry-picking commit")
  /\ gitProcess' = "running"
  /\ statusDisplay' = TRUE
  /\ promise' = "pending"
  /\ pc' = "waitClose"
  /\ UNCHANGED <<cfgFile, argv, cherryConfig, exited, exitCode, interrupted,
                 repo, closeCode, confirm, nData, inputRepoUrl, depth, result>>

\* lines 35-37: gitProcess.stdout.on("data")
StdoutData ==
  /\ pc = "waitClose"
  /\ gitProcess = "running"
  /\ nData < MaxData
  /\ nData' = nData + 1
  /\ log' = Append(log, "[stdout]")
  /\ UNCHANGED <<cfgFile, argv, cherryConfig, pc, exited, exitCode, interrupted,
                 repo, cmds, gitProcess, closeCode, statusDisplay, promise,
                 confirm, inputRepoUrl, depth, result>>

\* a stderr handler that runs `git status` on every data event
StderrData_EveryTime ==
  /\ pc = "waitClose"
  /\ gitProcess = "running"
  /\ nData < MaxData
  /\ nData' = nData + 1
  /\ log' = Append(log, "[stderr]")
  /\ cmds' = Append(cmds, Cmd("status", Empty, Empty))
  /\ \E ok \in BOOLEAN :
       IF ok
       THEN UNCHANGED <<pc, exited, exitCode>>
       ELSE ProcessExit(1)
  /\ UNCHANGED <<cfgFile, argv, cherryConfig, interrupted, repo, gitProcess,
                 closeCode, promise, confirm, inputRepoUrl, depth, result,
                 statusDisplay>>

\* lines 40-47: gitProcess.stderr.on("data"); an exception of execSync in
\* the handler is uncaught and ends the process with status 1
StderrData ==
  /\ pc = "waitClose"
  /\ gitProcess = "running"
  /\ nData < MaxData
  /\ nData' = nData + 1
  /\ log' = Append(log, "[stderr]")
  /\ IF statusDisplay
     THEN /\ cmds' = Append(cmds, Cmd("status", Empty, Empty))
          /\ \E ok \in BOOLEAN :
               IF ok
               THEN /\ statusDisplay' = FALSE
                    /\ UNCHANGED <<pc, exited, exitCode>>
               ELSE /\ ProcessExit(1)
                    /\ UNCHANGED statusDisplay
     ELSE UNCHANGED <<cmds, statusDisplay, pc, exited, exitCode>>
  /\ UNCHANGED <<cfgFile, argv, cherryConfig, interrupted, repo, gitProcess,
                 closeCode, promise, confirm, inputRepoUrl, depth, result>>

\* exit statuses of `git cherry-pick` with the unmerged paths they can leave
CherryPickExits ==
  { e \in [code : {0, 1, 128}, files : SUBSET Files] :
      e.code # 1 => e.files = {} }

\* a close handler that cleans up after a failed cherry-pick: it deletes
\* the temporary branch and drops the unmerged paths
Close_Cleanup ==
  /\ pc = "waitClose"
  /\ gitProcess = "running"
  /\ \E e \in CherryPickExits :
       /\ gitProcess' = "closed"
       /\ closeCode' = e.code
       /\ IF e.code = 0
          THEN /\ repo' = GitCherryPickExit(repo, e.code, e.files)
               /\ log' = Append(log, "Cherry-pick successful")
               /\ promise' = "resolved"
               /\ pc' = "prompt"
               /\ UNCHANGED <<exited, exitCode, cmds>>
          ELSE /\ repo' = GitBranchDelete(repo, TempBranchName(cherryConfig.sourceBranch), TRUE).repo
               /\ cmds' = Append(cmds, Cmd("branch -D", TempBranchName(cherryConfig.sourceBranch), Empty))
               /\ ProcessExit(0)
               /\ UNCHANGED <<log, promise>>
  /\ UNCHANGED <<cfgFile, argv, cherryConfig, interrupted, statusDisplay,
                 confirm, nData, inputRepoUrl, depth, result>>

\* lines 50-55: gitProcess.on("close"). On code 0 the promise resolves and
\* the .then of main asks the push question; otherwise nothing is pending
\* any more and the process ends with status 0.
Close ==
  /\ pc = "waitClose"
  /\ gitProcess = "running"
  /\ \E e \in CherryPickExits :
       /\ gitProcess' = "closed"
       /\ closeCode' = e.code
       /\ repo' = GitCherryPickExit(repo, e.code, e.files)
       /\ IF e.code = 0
          THEN /\ log' = Append(log, "Cherry-pick successful")
               /\ promise' = "resolved"
               /\ pc' = "prompt"
               /\ UNCHANGED <<exited, exitCode>>
          ELSE /\ ProcessExit(0)
               /\ UNCHANGED <<log, promise>>
  /\ UNCHANGED <<cfgFile, argv, cherryConfig, interrupted, cmds, statusDisplay,
                 confirm, nData, inputRepoUrl, depth, result>>

\* a push gate that is always open
PushConfirmed_Always(pushChanges) == TRUE

\* if (confirm.pushChanges)
PushConfirmed(pushChanges) == pushChanges

\* main, lines 145-172: the answer to the push prompt, the push and the
\* .catch of the chain; then nothing is pending and the process ends
PushGate ==
  /\ pc = "prompt"
  /\ \E pushChanges \in BOOLEAN, ok \in BOOLEAN :
       LET temp == TempBranchName(cherryConfig.sourceBranch)
           p == GitPush(repo, temp, cherryConfig.targetBranch, ok)
       IN IF PushConfirmed(pushChanges)
          THEN /\ confirm' = (IF pushChanges THEN "yes" ELSE "no")
               /\ cmds' = Append(cmds, Cmd("push -f", temp, cherryConfig.targetBranch))
               /\ repo' = p.repo
               /\ log' = log \o <<"Waiting push...",
                                  IF p.ok THEN "Changes successfully pushed."
                                          ELSE "Cherry-pick failed.">>
          ELSE /\ confirm' = "no"
               /\ log' = log \o <<"Waiting push...", "Merge completed but not pushed.">>
               /\ UNCHANGED <<cmds, repo>>
  /\ ProcessExit(0)
  /\ UNCHANGED <<cfgFile, argv, cherryConfig, interrupted, gitProcess,
                 closeCode, statusDisplay, promise, nData, inputRepoUrl, depth, result>>

\* lines 19-22: the SIGINT handler, run while the process waits for an event
SigInt ==
  /\ pc \in {"askUseLast", "askUrl", "askUseRemote", "waitClose", "prompt"}
  /\ interrupted' = TRUE
  /\ log' = Append(log, "Operation aborted by user.")
  /\ ProcessExit(1)
  /\ UNCHANGED <<cfgFile, argv, cherryConfig, repo, cmds, gitProcess,
                 closeCode, statusDisplay, promise, confirm, nData,
                 inputRepoUrl, depth, result>>

Next ==
  \/ Main
  \/ GetLastRemote
  \/ AnswerUseExisting
  \/ AnswerRepoUrl
  \/ AnswerUseRemote
  \/ Fetch
  \/ CreateTemporaryBranch
  \/ SwitchTargetBranch
  \/ CherryPick
  \/ StdoutData
  \/ StderrData
  \/ Close
  \/ PushGate
  \/ SigInt

Spec == Init /\ [][Next]_vars

(* ---------------------------------------------------------------------- *)
(* createTemporaryBranch called twice in a row, git itself working        *)
(* ---------------------------------------------------------------------- *)

GitWorks == [list |-> TRUE, del |-> TRUE, co |-> TRUE]

TwiceRef == RemoteRef(Lib, BranchX)

InitTwice ==
  /\ cfgFile = NoConfig
  /\ argv = <<>>
  /\ cherryConfig = InitialConfig
  /\ pc = "twice0"
  /\ exited = FALSE
  /\ exitCode = 0
  /\ interrupted = FALSE
  /\ repo \in { [r EXCEPT !.tracking = Put(@, TwiceRef, SrcHead)] :
                  r \in { q \in InitialRepos : q.head \in DOMAIN q.branches } }
  /\ cmds = <<>>
  /\ log = <<>>
  /\ gitProcess = "none"
  /\ closeCode = 0
  /\ statusDisplay = FALSE
  /\ promise = "none"
  /\ confirm = "unasked"
  /\ nData = 0
  /\ inputRepoUrl = Empty
  /\ depth = 0
  /\ result = NoResult

\* one call createTemporaryBranch("temp-x", "lib/x")
CallCreateTemporaryBranch ==
  /\ pc \in {"twice0", "twice1"}
  /\ LET r == createTemporaryBranch(repo, TempX, TwiceRef, GitWorks)
     IN /\ cmds' = cmds \o r.cmds
        /\ repo' = r.repo
        /\ IF r.exit
           THEN ProcessExit(1)
           ELSE /\ pc' = (IF pc = "twice0" THEN "twice1" ELSE "twice2")
                /\ UNCHANGED <<exited, exitCode>>
  /\ UNCHANGED <<cfgFile, argv, cherryConfig, interrupted, log, gitProcess,
                 closeCode, statusDisplay, promise, confirm, nData,
                 inputRepoUrl, depth, result>>

NextTwice == CallCreateTemporaryBranch

SpecTwice == InitTwice /\ [][NextTwice]_vars

(* ---------------------------------------------------------------------- *)
(* The URL and remote helpers called on their own                         *)
(* ---------------------------------------------------------------------- *)

HelperHosts == { <<"h">>, <<"gitlab", ".", "com">> }
HelperOrgs == { <<"o">>, <<"g", "/", "o">> }
HelperRepos == { <<"lib">>, <<"lib", ".", "js">> }

\* git@<host>:<org>/<repo>.git
SshForm(host, org, repoName) ==
  <<"git@">> \o host \o <<":">> \o org \o <<"/">> \o repoName \o <<".", "git">>

\* https://<host>/<org>/<repo>.git
HttpsForm(host, org, repoName) ==
  <<"https://">> \o host \o <<"/">> \o org \o <<"/">> \o repoName \o <<".", "git">>

\* http://<host>/<org>/<repo>.git
HttpForm(host, org, repoName) ==
  <<"http://">> \o host \o <<"/">> \o org \o <<"/">> \o repoName \o <<".", "git">>

\* a remote URL without the .git suffix
UrlNoGit == <<"https://", "h", "/", "o", "/", "lib">>

\* a string the sshPattern matches with a slash in its first group
UrlSlashHost == <<"git@", "/", "x", ":", "o", "/", "lib", ".", "git">>

UrlGitlab == HttpsForm(<<"gitlab", ".", "com">>, <<"o">>, <<"lib">>)

HelperUrls ==
  { SshForm(h, o, r) : h \in HelperHosts, o \in HelperOrgs, r \in HelperRepos }
  \cup { HttpsForm(h, o, r) : h \in HelperHosts, o \in HelperOrgs, r \in HelperRepos }
  \cup { HttpForm(h, o, r) : h \in HelperHosts, o \in HelperOrgs, r \in HelperRepos }
  \cup { UrlTarget, UrlBad, UrlNoGit, UrlSlashHost }

\* what `git remote -v` can list, in its order: origin, and perhaps lib,
\* mirror and my-origin
HelperRemotes ==
  { SelectSeq(<< [name |-> Lib, url |-> l], [name |-> Mirror, url |-> m],
                 [name |-> MyOrigin, url |-> y], OriginRemote >>,
              LAMBDA r : r.url # Empty) :
      l \in {Empty, UrlSsh},
      m \in {Empty, UrlHttps, UrlNoGit, UrlGitlab},
      y \in {Empty, UrlSsh, UrlDeep} }

InitHelpers ==
  /\ cfgFile = NoConfig
  /\ argv = <<>>
  /\ cherryConfig = InitialConfig
  /\ pc = "call"
  /\ exited = FALSE
  /\ exitCode = 0
  /\ interrupted = FALSE
  /\ repo \in { [branches |-> Put(EmptyRefs, Dev, LocalCommit), head |-> Dev,
                 origin |-> EmptyRefs, tracking |-> EmptyRefs, remotes |-> r,
                 unmerged |-> {}] : r \in HelperRemotes }
  /\ cmds = <<>>
  /\ log = <<>>
  /\ gitProcess = "none"
  /\ closeCode = 0
  /\ statusDisplay = FALSE
  /\ promise = "none"
  /\ confirm = "unasked"
  /\ nData = 0
  /\ inputRepoUrl \in HelperUrls
  /\ depth = 0
  /\ result = NoResult

\* the end of a call: the value returned, or process.exit(1)
Returns(fn, arg, exit, value) ==
  /\ result' = [fn |-> fn, arg |-> arg, exit |-> exit, value |-> value]
  /\ IF exit
     THEN ProcessExit(1)
     ELSE pc' = "returned" /\ UNCHANGED <<exited, exitCode>>
  /\ UNCHANGED <<cfgFile, argv, cherryConfig, interrupted, repo, log,
                 gitProcess, closeCode, statusDisplay, promise, confirm, nData,
                 inputRepoUrl, depth>>

\* normalizeUrl(inputRepoUrl)
CallNormalizeUrl ==
  /\ pc = "call"
  /\ UNCHANGED cmds
  /\ Returns("normalizeUrl", inputRepoUrl, normalizeUrlExits(inputRepoUrl),
             IF normalizeUrlExits(inputRepoUrl) THEN Empty
             ELSE normalizeUrl(inputRepoUrl))

\* normalizeUrl(normalizeUrl(inputRepoUrl))
CallNormalizeUrlAgain ==
  /\ pc = "returned"
  /\ result.fn = "normalizeUrl"
  /\ UNCHANGED cmds
  /\ Returns("normalizeUrl twice", result.value, normalizeUrlExits(result.value),
             IF normalizeUrlExits(result.value) THEN Empty
             ELSE normalizeUrl(result.value))

\* getRemoteList()
CallGetRemoteList ==
  /\ pc = "call"
  /\ cmds' = Append(cmds, Cmd("remote -v", Empty, Empty))
  /\ \E ok \in BOOLEAN :
       Returns("getRemoteList", Empty, ~ok,
               IF ok THEN getRemoteList(repo) ELSE <<>>)

\* getRemoteList() of src/index.js and dist/crcp.es.js
CallGetRemoteList_Monolith ==
  /\ pc = "call"
  /\ cmds' = Append(cmds, Cmd("remote -v", Empty, Empty))
  /\ \E ok \in BOOLEAN :
       Returns("getRemoteList_Monolith", Empty, ~ok,
               IF ok THEN getRemoteList_Monolith(repo) ELSE <<>>)

\* checkRemoteExists(inputRepoUrl): the boolean returned, or the message
\* printed before process.exit(1) (that of getRemoteList's catch when
\* `git remote -v` fails, that of normalizeUrl's catch otherwise)
CallCheckRemoteExists ==
  /\ pc = "call"
  /\ cmds' = Append(cmds, Cmd("remote -v", Empty, Empty))
  /\ \E ok \in BOOLEAN :
       LET exit == ~ok \/ checkRemoteExistsExits(repo, inputRepoUrl)
       IN Returns("checkRemoteExists", inputRepoUrl, exit,
                  IF ~ok THEN "error.message"
                  ELSE IF exit THEN "Error standardizing URL"
                  ELSE checkRemoteExists(repo, inputRepoUrl))

\* checkRemoteExists(inputRepoUrl) of src/index.js
CallCheckRemoteExists_Monolith ==
  /\ pc = "call"
  /\ cmds' = Append(cmds, Cmd("remote -v", Empty, Empty))
  /\ \E ok \in BOOLEAN :
       LET exit == ~ok \/ checkRemoteExistsExits_Monolith(repo, inputRepoUrl)
       IN Returns("checkRemoteExists_Monolith", inputRepoUrl, exit,
                  IF ~ok THEN "error.message"
                  ELSE IF exit THEN "Error standardizing URL"
                  ELSE checkRemoteExists_Monolith(repo, inputRepoUrl))

\* getRepoNameFromUrl(inputRepoUrl): the try/catch returns the default name,
\* the function never ends the process
CallGetRepoNameFromUrl ==
  /\ pc = "call"
  /\ UNCHANGED cmds
  /\ Returns("getRepoNameFromUrl", inputRepoUrl, FALSE, getRepoNameFromUrl(inputRepoUrl))

\* getCommits(remoteName, branch): the fetch, the log and the records; a
\* failed command is rethrown to the caller
CallGetCommits ==
  /\ pc = "call"
  /\ cmds' = cmds \o <<Cmd("fetch", Lib, BranchX), Cmd("log", RemoteRef(Lib, BranchX), Empty)>>
  /\ \E history \in LogHistories, ok \in BOOLEAN :
       Returns("getCommits", history, ~ok,
               IF ok THEN getCommits(FormatLog(history)) ELSE <<>>)

NextHelpers ==
  \/ CallNormalizeUrl
  \/ CallGetCommits
  \/ CallGetRepoNameFromUrl
  \/ CallNormalizeUrlAgain
  \/ CallGetRemoteList
  \/ CallGetRemoteList_Monolith
  \/ CallCheckRemoteExists
  \/ CallCheckRemoteExists_Monolith

SpecHelpers == InitHelpers /\ [][NextHelpers]_vars

(* ---------------------------------------------------------------------- *)
(* What a run shows to its caller                                         *)
(* ---------------------------------------------------------------------- *)

Ops(seq) == { seq[i].op : i \in 1..Len(seq) }

CountOp(seq, op) == Cardinality({ i \in 1..Len(seq) : seq[i].op = op })

NewCmds == SubSeq(cmds', Len(cmds) + 1, Len(cmds'))

LastLog == IF log = <<>> THEN "" ELSE log[Len(log)]

\* the result the cherry-pick step hands to main: the promise resolved is
\* Applied, the promise rejected is Failed, a pending promise is no result
CherryPickResult ==
  IF promise = "resolved" THEN [tag |-> "Applied", files |-> {}]
  ELSE IF promise = "rejected" THEN [tag |-> "Failed", files |-> {}]
  ELSE [tag |-> "none", files |-> {}]

\* the final status a caller can read from the exit status and the last
\* message of the run
RunStatus ==
  IF ~exited THEN "Running"
  ELSE IF exitCode # 0 THEN "Failed"
  ELSE IF LastLog = "Changes successfully pushed." THEN "Pushed"
  ELSE IF LastLog = "Merge completed but not pushed." THEN "CompletedNotPushed"
  ELSE IF LastLog = "Cherry-pick failed." THEN "ConflictPendingManualResolution"
  ELSE "none"

TerminalStatuses ==
  {"Pushed", "CompletedNotPushed", "ConflictPendingManualResolution", "Failed"}

TempOfRun == TempBranchName(cherryConfig.sourceBranch)
RefOfRun == RemoteRef(cherryConfig.usingRemoteName, cherryConfig.sourceBranch)

(* ---------------------------------------------------------------------- *)
(* Claims                                                                 *)
(* ---------------------------------------------------------------------- *)

\* C1: once the cherry-pick subprocess has exited, its exit is classified:
\* code 0 is Applied, a non-zero code with unmerged paths is Conflicted
\* carrying exactly the unmerged files, a non-zero code without unmerged
\* paths is Failed.
C1_Classification ==
  gitProcess = "closed" =>
    /\ closeCode = 0 => CherryPickResult.tag = "Applied"
    /\ closeCode # 0 /\ repo.unmerged # {} =>
         CherryPickResult = [tag |-> "Conflicted", files |-> repo.unmerged]
    /\ closeCode # 0 /\ repo.unmerged = {} => CherryPickResult.tag = "Failed"

\* C2: a run whose cherry-pick subprocess exited with a non-zero code has
\* halted (no push follows) and its process ends with a non-zero status.
C2_NonZeroExitStatus ==
  (gitProcess = "closed" /\ closeCode # 0) =>
    /\ exited
    /\ exitCode # 0
    /\ "push -f" \notin Ops(cmds)

\* C3: a run that has ended without an interrupt has reached one of the
\* terminal run statuses, and the promise of the cherry-pick step is settled
\* once the subprocess has exited, whatever its exit code.
C3_TerminalStatus ==
  (exited /\ ~interrupted) =>
    /\ RunStatus \in TerminalStatuses
    /\ gitProcess = "closed" => promise \in {"resolved", "rejected"}

\* C4: `git push -f origin temp-<sourceBranch>:<targetBranch>` is in the
\* commands of a run only if the cherry-pick exited with code 0 and the
\* push question was answered yes; after the answer no, no command has
\* been run since the cherry-pick and the run has ended with status 0 as
\* completed-not-pushed.
C4_PushGate ==
  /\ \A i \in 1..Len(cmds) :
       cmds[i].op = "push -f" =>
         /\ gitProcess = "closed" /\ closeCode = 0 /\ confirm = "yes"
         /\ cmds[i].a = TempOfRun /\ cmds[i].b = cherryConfig.targetBranch
         /\ i = Len(cmds)
  /\ confirm = "no" =>
       /\ Ops(cmds) \cap {"push -f"} = {}
       /\ \A i \in 1..Len(cmds) :
            cmds[i].op = "cherry-pick" =>
              \A j \in (i + 1)..Len(cmds) : cmds[j].op = "status"
       /\ exited /\ exitCode = 0 /\ RunStatus = "CompletedNotPushed"

C4_Witness ==
  /\ confirm = "yes"
  /\ "push -f" \in Ops(cmds)
  /\ RunStatus = "Pushed"

\* the other side of the gate: the question was declined after a clean pick
C4_DeclinedWitness ==
  /\ confirm = "no"
  /\ closeCode = 0
  /\ RunStatus = "CompletedNotPushed"

\* the steps of the first stage, the resolution of the remote
ResolveStages == {"main", "interactive", "askUseLast", "askUrl", "askUseRemote"}

\* the stages of the pipeline in their order
StageEdges ==
  { <<"main", "fetch">>,
    <<"fetch", "createTemporaryBranch">>,
    <<"createTemporaryBranch", "switchTargetBranch">>,
    <<"switchTargetBranch", "cherryPick">>,
    <<"cherryPick", "waitClose">>,
    <<"waitClose", "prompt">> }

\* the git commands a stage may run
StageOps(stage) ==
  CASE stage = "fetch" -> {"fetch"}
    [] stage = "createTemporaryBranch" -> {"branch --list", "branch -D", "checkout -b"}
    [] stage = "switchTargetBranch" -> {"branch --list", "checkout", "checkout -b", "push -u"}
    [] stage = "cherryPick" -> {"cherry-pick"}
    [] stage = "waitClose" -> {"status"}
    [] stage = "prompt" -> {"push -f"}
    [] stage \in ResolveStages -> {"remote -v", "remote add"}
    [] OTHER -> {}

FetchSucceeded ==
  /\ RefOfRun \in DOMAIN repo.tracking
  /\ repo.tracking[RefOfRun] = SrcHead

\* the external command of a stage has exited successfully
StageDone(stage) ==
  CASE stage = "main" -> cherryConfig.isInitialized
    [] stage = "fetch" -> FetchSucceeded
    [] stage = "createTemporaryBranch" ->
         /\ TempOfRun \in DOMAIN repo.branches
         /\ repo.head = TempOfRun
         /\ repo.branches[TempOfRun] = SrcHead
    [] stage = "switchTargetBranch" ->
         /\ cherryConfig.targetBranch \in DOMAIN repo.branches
         /\ repo.head = cherryConfig.targetBranch
    [] stage = "cherryPick" -> gitProcess = "running"
    [] stage = "waitClose" -> gitProcess = "closed" /\ closeCode = 0
    [] OTHER -> FALSE

C5_Step ==
  /\ Ops(NewCmds) \subseteq StageOps(pc)
  /\ pc' # pc =>
       \/ pc' = "exited"
       \/ pc \in ResolveStages /\ pc' \in ResolveStages \ {"main"}
       \/ \E e \in StageEdges : e[1] = pc /\ e[2] = pc' /\ StageDone(e[1])'

C6_ExistingWitness ==
  /\ gitProcess = "running"
  /\ "checkout" \in Ops(cmds)
  /\ repo.head = Release

\* C7: a run whose fetch failed has ended with status 1 having run no
\* other command; every branch or push command of a run comes after a
\* fetch of <remote> <sourceBranch> that succeeded.
C7_FetchFirst ==
  /\ (Ops(cmds) \cap {"branch --list", "branch -D", "checkout", "checkout -b",
                      "push -u", "push -f", "cherry-pick"} # {}) =>
       /\ \E i \in 1..Len(cmds) :
            /\ cmds[i] = Cmd("fetch", cherryConfig.usingRemoteName, cherryConfig.sourceBranch)
            /\ \A j \in 1..(i - 1) : cmds[j].op \in {"remote -v", "remote add"}
       /\ FetchSucceeded
  /\ ("fetch" \in Ops(cmds) /\ ~FetchSucceeded) =>
       /\ exited /\ exitCode = 1
       /\ cmds[Len(cmds)].op = "fetch"

C7_Witness ==
  /\ cmds # <<>>
  /\ cmds[Len(cmds)].op = "fetch"
  /\ ~FetchSucceeded
  /\ exited /\ exitCode = 1

\* C8: after two calls createTemporaryBranch(name, ref) in a row the
\* second call has completed and name is a local branch pointing at ref.
C8_TwiceLeavesOneBranch ==
  CountOp(cmds, "branch --list") = 2 =>
    /\ ~exited
    /\ pc = "twice2"
    /\ TempX \in DOMAIN repo.branches
    /\ repo.branches[TempX] = repo.tracking[TwiceRef]

\* a step of createTemporaryBranch that ran `git branch -D`
C9_DeleteStep ==
  /\ pc = "createTemporaryBranch"
  /\ "branch -D" \in Ops(NewCmds)

C9_Step ==
  C9_DeleteStep =>
    \/ /\ "checkout -b" \notin Ops(NewCmds)
       /\ exited' /\ exitCode' = 1
       /\ repo' = repo
    \/ /\ "checkout -b" \in Ops(NewCmds)
       /\ \/ TempOfRun \notin DOMAIN repo'.branches
          \/ ~exited' /\ repo'.head = TempOfRun /\ repo'.branches[TempOfRun] = SrcHead
       /\ repo.head # TempOfRun

\* C9: when createTemporaryBranch runs `git branch -D` on an existing
\* temporary branch, either the deletion failed, the process ends with
\* status 1 and `git checkout -b` is not run, or the stale branch is gone
\* before `git checkout -b` is run.
C9_StaleBranchFatal == [][C9_Step]_vars

C9_Witness ==
  /\ exited /\ exitCode = 1
  /\ cmds # <<>>
  /\ cmds[Len(cmds)].op = "branch -D"
  /\ TempOfRun \in DOMAIN repo.branches

C10_Step ==
  /\ pc \in {"main", "fetch", "createTemporaryBranch"} => repo'.origin = repo.origin
  /\ (pc = "switchTargetBranch" /\ cherryConfig.targetBranch \in DOMAIN repo.branches) =>
       /\ Ops(NewCmds) \subseteq {"branch --list", "checkout"}
       /\ repo'.branches = repo.branches
       /\ repo'.origin = repo.origin

\* C10: when the target branch exists locally, switchTargetBranch runs
\* only the existence query and `git checkout <target>`: no branch is
\* created, `git push -u origin <target>` is not run and origin is
\* unchanged up to the cherry-pick.
C10_ExistingTargetOnlySwitch == [][C10_Step]_vars

C10_Witness ==
  /\ pc = "cherryPick"
  /\ "checkout" \in Ops(cmds)
  /\ "push -u" \notin Ops(cmds)
  /\ repo.head = cherryConfig.targetBranch

\* the commands of a switchTargetBranch that created and published <target>
C11_CreateAndPublish ==
  << Cmd("branch --list", cherryConfig.targetBranch, Empty),
     Cmd("checkout -b", cherryConfig.targetBranch, Empty),
     Cmd("push -u", cherryConfig.targetBranch, Empty) >>

C11_Step ==
  /\ (pc = "switchTargetBranch" /\ cherryConfig.targetBranch \notin DOMAIN repo.branches) =>
       /\ gitProcess = "none" /\ gitProcess' = "none"
       /\ \/ /\ exited' /\ exitCode' = 1
             /\ "cherry-pick" \notin Ops(cmds')
          \/ /\ pc' = "cherryPick"
             /\ NewCmds = C11_CreateAndPublish
             /\ repo'.head = cherryConfig.targetBranch
             /\ repo'.branches[cherryConfig.targetBranch] = repo.branches[repo.head]
             /\ cherryConfig.targetBranch \in DOMAIN repo'.origin
             /\ repo'.origin[cherryConfig.targetBranch] = repo.branches[repo.head]
  /\ (gitProcess # "none" /\ "push -u" \in Ops(cmds)) =>
       /\ cherryConfig.targetBranch \in DOMAIN repo'.origin
       /\ \E i, j \in 1..Len(cmds') :
            /\ i < j
            /\ cmds'[i] = Cmd("push -u", cherryConfig.targetBranch, Empty)
            /\ cmds'[j].op = "cherry-pick"

\* C11: when the target branch does not exist locally, switchTargetBranch
\* either ends the process with status 1 before any cherry-pick, or creates
\* the branch at the current HEAD and publishes it with `git push -u origin
\* <target>` while no cherry-pick subprocess exists yet; the published
\* branch stays on origin whatever the cherry-pick does afterwards.
C11_PublishBeforeCherryPick == [][C11_Step]_vars

\* the cherry-pick failed after the new target had been published
C11_Witness ==
  /\ gitProcess = "closed"
  /\ closeCode # 0
  /\ Cmd("push -u", Release, Empty) \in { cmds[i] : i \in 1..Len(cmds) }
  /\ Release \in DOMAIN repo.origin
  /\ repo.origin[Release] = SrcHead

\* C12: a run that has ended after a successful cherry-pick, the push
\* question answered, has deleted the temporary branch temp-<sourceBranch>
\* with its last command and the branch is absent.
C12_TempBranchDeleted ==
  (exited /\ promise = "resolved" /\ confirm \in {"yes", "no"}) =>
    /\ TempOfRun \notin DOMAIN repo.branches
    /\ cmds[Len(cmds)] = Cmd("branch -D", TempOfRun, Empty)

\* the commands that change the repository or origin
C13_Mutating ==
  {"fetch", "branch -D", "checkout -b", "checkout", "push -u", "push -f",
   "cherry-pick", "remote add"}

C13_Step ==
  /\ (gitProcess = "running" /\ gitProcess' = "closed" /\ closeCode' # 0) =>
       /\ cmds' = cmds
       /\ repo'.branches = repo.branches
       /\ repo'.head = repo.head
       /\ repo'.origin = repo.origin
       /\ repo'.tracking = repo.tracking
       /\ repo'.remotes = repo.remotes
       /\ TempOfRun \in DOMAIN repo'.branches
       /\ \E i \in 1..Len(cmds') :
            /\ cmds'[i].op = "cherry-pick"
            /\ \A j \in (i + 1)..Len(cmds') : cmds'[j].op \notin C13_Mutating
  /\ (gitProcess = "closed" /\ closeCode # 0) =>
       /\ repo' = repo
       /\ Ops(NewCmds) \cap C13_Mutating = {}

C14_Connected ==
  SelectSeq(repo.remotes,
            LAMBDA r : r.name # Origin /\ r.url # Empty /\ r.url # <<"undefined">>)

\* C14: a call checkRemoteExists(candidateUrl) that returns, in either
\* variant, returns true exactly when normalizeUrl(candidateUrl) is the
\* normalized URL of a connected remote other than origin, whatever the
\* names of the remotes.
C14_ByCanonicalUrl ==
  (/\ result.fn \in {"checkRemoteExists", "checkRemoteExists_Monolith"}
   /\ ~result.exit) =>
    (result.value <=>
       \E i \in 1..Len(C14_Connected) :
         /\ ~normalizeUrlExits(C14_Connected[i].url)
         /\ normalizeUrl(C14_Connected[i].url) = normalizeUrl(result.arg))

\* C17: a call getRemoteList() that returns, in either variant, returns
\* exactly the fetch entries of `git remote -v` whose name is not origin
\* and whose URL is there, in the order of the listing.
C17_ExactlyNonOrigin ==
  (/\ result.fn \in {"getRemoteList", "getRemoteList_Monolith"}
   /\ ~result.exit) =>
    result.value = C14_Connected

\* C18: for every URL x that normalizeUrl accepts, the call
\* normalizeUrl(normalizeUrl(x)) returns and returns normalizeUrl(x).
C18_Idempotent ==
  result.fn = "normalizeUrl twice" =>
    /\ ~result.exit
    /\ result.value = result.arg

\* C19: for every host, organisation and repository, normalizeUrl returns
\* https://<host>/<org>/<repo>.git both for git@<host>:<org>/<repo>.git and
\* for https://<host>/<org>/<repo>.git.
C19_OneCanonicalForm ==
  \A h \in HelperHosts, o \in HelperOrgs, r \in HelperRepos :
    (/\ result.fn = "normalizeUrl"
     /\ result.arg \in {SshForm(h, o, r), HttpsForm(h, o, r)}) =>
      /\ ~result.exit
      /\ result.value = HttpsForm(h, o, r)

\* the SSH form of a repository in a subgroup, with dots in host and name
C19_Witness ==
  /\ pc = "returned"
  /\ result.fn = "normalizeUrl"
  /\ result.arg = SshForm(<<"gitlab", ".", "com">>, <<"g", "/", "o">>, <<"lib", ".", "js">>)
  /\ result.value = HttpsForm(<<"gitlab", ".", "com">>, <<"g", "/", "o">>, <<"lib", ".", "js">>)

\* a connected remote other than origin has the canonical URL of url
C15_Matches(url) ==
  \E i \in 1..Len(repo.remotes) :
    /\ repo.remotes[i].name # Origin
    /\ ~normalizeUrlExits(repo.remotes[i].url)
    /\ ~normalizeUrlExits(url)
    /\ normalizeUrl(repo.remotes[i].url) = normalizeUrl(url)

C15_Step ==
  /\ ("fetch" \in Ops(NewCmds) /\ ~normalizeUrlExits(cherryConfig'.usingRemoteUrl)) =>
       ("remote add" \in Ops(cmds) \/ C15_Matches(cherryConfig'.usingRemoteUrl))
  /\ "remote add" \in Ops(NewCmds) => ~C15_Matches(inputRepoUrl')

\* C15: in every input mode the remote is resolved before the fetch: when
\* no connected remote has the canonical URL of the source repository,
\* `git remote add` has been issued before `git fetch` is, and `git remote
\* add` is only issued when no connected remote has that canonical URL.
C15_RemoteResolvedBeforeFetch == [][C15_Step]_vars

\* C16: when `git fetch <name> <sourceBranch>` has been issued and some
\* configured remote has the canonical URL of the source repository, <name>
\* is the name of such a remote.
C16_FetchNamesMatchingRemote ==
  \A i \in 1..Len(cmds) :
    (cmds[i].op = "fetch" /\ C15_Matches(cherryConfig.usingRemoteUrl)) =>
      \E k \in 1..Len(repo.remotes) :
        /\ repo.remotes[k].name = cmds[i].a
        /\ normalizeUrl(repo.remotes[k].url) = normalizeUrl(cherryConfig.usingRemoteUrl)

\* C20: once a URL that matches neither pattern has been taken from the
\* configuration file, the arguments or the prompt, the run has ended with
\* the invalid-URL error and status 1; it has issued no command other than
\* the listing of the remotes and has put no default name in place.
C20_InvalidUrlFatal ==
  LET url == IF inputRepoUrl # Empty THEN inputRepoUrl ELSE cherryConfig.usingRemoteUrl
  IN (url # Empty /\ normalizeUrlExits(url)) =>
       /\ exited /\ exitCode = 1
       /\ LastLog = "Error standardizing URL"
       /\ Ops(cmds) \subseteq {"remote -v"}
       /\ cherryConfig.usingRemoteName # SourceRepo

\* the last path segment of url before its .git suffix
C21_LastSegment(url) == LastSegment(SubSeq(url, 1, Len(url) - 2))

\* C21: getRepoNameFromUrl returns, for every URL that normalizeUrl
\* accepts, the last path segment before .git, and for a string without the
\* shape of a remote URL the name source-repo; it always returns.
C21_LastPathSegment ==
  result.fn = "getRepoNameFromUrl" =>
    /\ ~result.exit
    /\ ~normalizeUrlExits(result.arg) => result.value = C21_LastSegment(result.arg)
    /\ result.arg = UrlBad => result.value = SourceRepo

\* C22: getCommits returns one record per commit of the log, in the order
\* of the log; the value of each record is the hash of its commit, the
\* trailing token of the line, and the displayed part holds the whole
\* subject, also when the subject contains " - ".
C22_HashIsTrailingToken ==
  (result.fn = "getCommits" /\ ~result.exit) =>
    /\ Len(result.value) = Len(result.arg)
    /\ \A i \in 1..Len(result.arg) :
         /\ result.value[i].value = <<result.arg[i].hash>>
         /\ result.value[i].name =
              <<"2024-01-01 10:00:00 bob > ">> \o result.arg[i].subject
                \o <<" (", result.arg[i].hash, ")">>

\* a field of the configuration file is missing or empty
C23_FieldMissing ==
  /\ cfgFile.present
  /\ \/ cfgFile.sourceRepoUrl = Empty
     \/ cfgFile.sourceBranch = Empty
     \/ cfgFile.commitHash = Empty
     \/ cfgFile.targetBranch = Empty

\* C23: with a configuration file in which one of sourceRepoUrl,
\* sourceBranch, commitHash, targetBranch is missing or empty, the run has
\* ended after its first step with the configuration error and status 1
\* and has run no git command, whatever the command line holds.
C23_MissingFieldFatal ==
  (C23_FieldMissing /\ pc # "main") =>
    /\ exited /\ exitCode = 1
    /\ log = <<"config field missing">>
    /\ cmds = <<>>
    /\ cherryConfig = InitialConfig

\* the source branch is missing while the command line is complete
C23_Witness ==
  /\ exited /\ exitCode = 1
  /\ cfgFile.present /\ cfgFile.sourceBranch = Empty
  /\ Len(argv) = 4
  /\ cmds = <<>>

\* the git commands with a side effect on the repository
C24_SideEffects ==
  {"remote add", "fetch", "branch -D", "checkout -b", "checkout", "push -u",
   "cherry-pick", "push -f"}

C24_Populated(config) ==
  /\ config.usingRemoteName # Empty
  /\ config.usingRemoteUrl # Empty
  /\ config.sourceBranch # Empty
  /\ config.commitHash # Empty
  /\ config.targetBranch # Empty

C24_Step ==
  /\ Ops(NewCmds) \cap C24_SideEffects # {} => C24_Populated(cherryConfig)
  /\ Ops(cmds) \cap C24_SideEffects # {} => cherryConfig' = cherryConfig

\* C24: every git command with a side effect is issued with the five
\* values of the run configuration in place, in every input mode, and the
\* configuration does not change once such a command has been issued.
C24_ConfigBeforeSideEffects == [][C24_Step]_vars

C25_Step == gitProcess = "running" => NewCmds = <<>>

\* C25: no git command is started while another git subprocess of the tool
\* is alive: between the spawn of the cherry-pick subprocess and its close
\* event the tool starts no git command.
C25_OneGitAtATime == [][C25_Step]_vars

\* C26: during one cherry-pick `git status` runs at most once, whatever
\* the stdout and stderr data events and their order, and only after a
\* stderr data event.
C26_StatusAtMostOnce ==
  /\ CountOp(cmds, "status") <= 1
  /\ "status" \in Ops(cmds) =>
       \E i \in 1..Len(log) : log[i] = "[stderr]"

\* two stderr data events and one `git status`
C26_Witness ==
  /\ CountOp(cmds, "status") = 1
  /\ Cardinality({ i \in 1..Len(log) : log[i] = "[stderr]" }) = 2
  /\ gitProcess = "closed"

\* stdout data only: no `git status`
C26_SilentWitness ==
  /\ gitProcess = "closed"
  /\ nData = 2
  /\ "status" \notin Ops(cmds)

\* the commands that would drive or resolve a cherry-pick in progress
C27_Resolving ==
  {"cherry-pick --continue", "cherry-pick --abort", "cherry-pick --skip",
   "add", "commit", "checkout --", "reset", "merge"}

C28_Step ==
  (~interrupted /\ interrupted') =>
    /\ cmds' = cmds
    /\ repo' = repo
    /\ exited'
    /\ exitCode' \notin {0, 1}

\* C28: a SIGINT leaves the repository as it is (no branch is deleted),
\* is followed by no git command and ends the process with a status that
\* is neither 0 nor the status 1 of the fatal errors of the run.
C28_InterruptDistinctStatus == [][C28_Step]_vars

\* the commands of the stage that ends in the pre-state took effect
C29_Achieved ==
  LET last == cmds'[Len(cmds')].op
      target == cherryConfig.targetBranch
  IN CASE pc = "fetch" ->
            /\ RefOfRun \in DOMAIN repo'.tracking
            /\ repo'.tracking[RefOfRun] = SrcHead
       [] pc = "createTemporaryBranch" ->
            /\ last = "checkout -b"
            /\ TempOfRun \in DOMAIN repo'.branches
            /\ repo'.head = TempOfRun
            /\ repo'.branches[TempOfRun] = SrcHead
       [] pc = "switchTargetBranch" ->
            /\ last \in {"checkout", "push -u"}
            /\ target \in DOMAIN repo'.branches
            /\ repo'.head = target
            /\ last = "push -u" =>
                 /\ target \in DOMAIN repo'.origin
                 /\ repo'.origin[target] = repo'.branches[target]
       [] OTHER -> TRUE

C29_Step ==
  pc \in {"fetch", "createTemporaryBranch", "switchTargetBranch"} =>
    /\ NewCmds # <<>>
    /\ \A i, j \in 1..Len(NewCmds) : NewCmds[i].op = NewCmds[j].op => i = j
    /\ IF exited'
       THEN /\ exitCode' = 1
            /\ gitProcess' = "none"
            /\ Ops(cmds') \cap {"cherry-pick", "push -f"} = {}
       ELSE /\ C29_Achieved
            /\ pc' = (CASE pc = "fetch" -> "createTemporaryBranch"
                        [] pc = "createTemporaryBranch" -> "switchTargetBranch"
                        [] OTHER -> "cherryPick")

\* C29: a stage before the cherry-pick runs each of its git commands once;
\* either all of them took effect and the run is at the next stage, or the
\* run has ended with status 1 right after the command that failed, having
\* issued neither the cherry-pick nor the force-push.
C29_PreCherryPickFailureAborts == [][C29_Step]_vars

\* the publication of the new target branch failed
C29_Witness ==
  /\ exited /\ exitCode = 1
  /\ cmds # <<>>
  /\ cmds[Len(cmds)] = Cmd("push -u", Release, Empty)
  /\ Release \notin DOMAIN repo.origin
  /\ "cherry-pick" \notin Ops(cmds)

\* C30: in a run started with the five arguments <source-repo>
\* <source-branch> <commit-hash> <target-repo> <target-branch>, the target
\* branch of the configuration is the fifth argument and the commit hash
\* the third.
C30_FifthArgIsTarget ==
  (Len(argv) = 5 /\ cherryConfig.isInitialized) =>
    /\ cherryConfig.targetBranch = argv[5]
    /\ cherryConfig.commitHash = argv[3]

\* C31: in a run whose commit hash came from the configuration file or the
\* arguments, getCommits is not called: no `git log` is run and the only
\* fetch is the one of main.
C31_NoHistoryListing ==
  cherryConfig.isInitialized =>
    /\ "log" \notin Ops(cmds)
    /\ CountOp(cmds, "fetch") <= 1

\* a run with the hash of the arguments that went through the cherry-pick
C31_Witness ==
  /\ cherryConfig.isInitialized
  /\ cherryConfig.commitHash = Abc123
  /\ argv # <<>>
  /\ gitProcess = "closed"
  /\ CountOp(cmds, "fetch") = 1

\* C32: a run in interactive mode (no configuration file, no arguments)
\* that was not interrupted ends before the temporary-branch stage only
\* because a git command failed or the URL typed was rejected.
C32_InteractiveGoesOn ==
  (/\ exited
   /\ ~interrupted
   /\ cfgFile = NoConfig /\ argv = <<>>
   /\ "branch --list" \notin Ops(cmds)) =>
    LastLog \in {"error.message", "Error standardizing URL"}

\* C33: the calls of getUserCustomRepositories that are pending at a time
\* do not grow with the number of times the user declines: the function is
\* never entered while a call of it is pending.
C33_NoNestedReprompt == depth <= 1

\* C34: once the confirmed force-push has succeeded, origin/<targetBranch>
\* is the commit of the local target branch, the one the cherry-pick made.
C34_PublishedIsTargetHead ==
  LastLog = "Changes successfully pushed." =>
    /\ cherryConfig.targetBranch \in DOMAIN repo.origin
    /\ repo.origin[cherryConfig.targetBranch] = repo.branches[cherryConfig.targetBranch]

C35_Step ==
  (/\ pc = "switchTargetBranch"
   /\ cherryConfig.targetBranch \notin DOMAIN repo.branches
   /\ cherryConfig.targetBranch \in DOMAIN repo'.branches) =>
    /\ repo.head = TempOfRun
    /\ repo.branches[TempOfRun] = repo.tracking[RefOfRun]
    /\ repo'.branches[cherryConfig.targetBranch] = repo.branches[TempOfRun]
    /\ \A b \in {Dev, Release} \cap DOMAIN repo.branches :
          repo'.branches[cherryConfig.targetBranch] # repo.branches[b]

\* C35: a target branch that switchTargetBranch creates starts at the
\* commit of temp-<sourceBranch>, which is checked out at that time and is
\* the head of <remote>/<sourceBranch>, and not at the commit of the
\* branch the user had checked out.
C35_NewTargetFromTemp == [][C35_Step]_vars

\* the new target holds the source head while the user's branch is elsewhere
C35_Witness ==
  /\ pc = "cherryPick"
  /\ Cmd("checkout -b", Release, Empty) \in { cmds[i] : i \in 1..Len(cmds) }
  /\ repo.branches[Release] = SrcHead
  /\ repo.branches[Dev] = LocalCommit


\* C36: a confirmed force-push that fails ends the run with a non-zero
\* exit status, and "Cherry-pick failed" is printed only in runs whose
\* cherry-pick step did not succeed.
C36_PushFailureReported ==
  /\ (/\ exited
      /\ confirm = "yes"
      /\ "push -f" \in Ops(cmds)
      /\ LastLog # "Changes successfully pushed.") => exitCode # 0
  /\ (\E i \in 1..Len(log) : log[i] = "Cherry-pick failed.") =>
       CherryPickResult.tag # "Applied"


\* C37: for a candidate URL of a recognized shape, checkRemoteExists (in
\* either variant) is never ended by normalizeUrl: whatever the URLs of
\* the connected remotes, the only exit is that of a failed `git remote -v`.
C37_ListedUrlNeverFatal ==
  (/\ result.fn \in {"checkRemoteExists", "checkRemoteExists_Monolith"}
   /\ ~normalizeUrlExits(result.arg)
   /\ result.exit) =>
    result.value # "Error standardizing URL"


\* the stages at which the tool prompts for the values of the run
C38_Prompts == {"interactive", "askUseLast", "askUrl", "askUseRemote"}

\* the command line holds the four values the tool reads
C38_ArgsPresent == Len(argv) >= 4 /\ \A i \in 1..4 : argv[i] # Empty

C38_ConfigComplete == cfgFile.present /\ ~C23_FieldMissing

\* C38: once main has read its inputs, the values of the run are those of
\* the command line when it holds them (with a complete configuration file
\* or with none), and those of a complete configuration file when there
\* are no arguments; isInitialized is true and no prompt stage is entered.
C38_ArgsOverConfig ==
  pc # "main" =>
    /\ (C38_ArgsPresent /\ (C38_ConfigComplete \/ ~cfgFile.present)) =>
         /\ cherryConfig =
              [usingRemoteName |-> getRepoNameFromUrl(argv[1]),
               usingRemoteUrl |-> argv[1],
               sourceBranch |-> argv[2],
               commitHash |-> argv[3],
               targetBranch |-> argv[4],
               isInitialized |-> TRUE]
         /\ pc \notin C38_Prompts
    /\ (argv = <<>> /\ C38_ConfigComplete) =>
         /\ cherryConfig =
              [usingRemoteName |-> getRepoNameFromUrl(cfgFile.sourceRepoUrl),
               usingRemoteUrl |-> cfgFile.sourceRepoUrl,
               sourceBranch |-> cfgFile.sourceBranch,
               commitHash |-> cfgFile.commitHash,
               targetBranch |-> cfgFile.targetBranch,
               isInitialized |-> TRUE]
         /\ pc \notin C38_Prompts

\* both sources are there and differ: the run fetches with the URL of the
\* command line
C38_Witness ==
  /\ pc = "createTemporaryBranch"
  /\ C38_ConfigComplete
  /\ C38_ArgsPresent
  /\ argv[1] # cfgFile.sourceRepoUrl
  /\ cherryConfig.usingRemoteUrl = argv[1]
  /\ cherryConfig.isInitialized

====
